---- MODULE Spec2Model ----
(***************************************************************************)
(* Model of the property-listing scripts:                                  *)
(*   src/002-stride-swarm-crawl4ai-marketing-agent/main.py  (the rendering *)
(*     crawl -> extract -> persist -> summarize -> report pipeline), and   *)
(*   src/test2.py  (the plain-HTTP scraper with the urllib3 retry policy). *)
(* Text is a sequence of one-character strings; "U+00B2" stands for the    *)
(* single non-ASCII code point of "m2" (superscript two).                  *)
(***************************************************************************)
EXTENDS Naturals, Integers, Sequences, FiniteSets, TLC

VARIABLES
    \* ---- main.py ----
    pc,                \* position of UserInterfaceAgent.run / scrape_website
    url,               \* the URL read by input()
    elapsed,           \* seconds the awaited crawl has been outstanding
    result,            \* the crawler's result object (html, extracted_content)
    data,              \* scrape_website's local list of records
    property_data,     \* run's first unpacked return value
    extracted_content, \* run's second unpacked return value
    analysis,          \* the dict returned by analyze_property_data
    api_requests,      \* completion requests issued to the API, in order
    api_responses,     \* what the API answered, in order
    folders,           \* directories on disk
    files,             \* output files on disk: name -> None or Some(content)
    started,           \* stage entries, in the order the stages began
    errors,            \* logger.error messages
    exception,         \* the exception that left run() uncaught, if any
    \* ---- test2.py ----
    spc,               \* position of web_scraper / the module-level driver
    server,            \* behaviour of the remote server
    response,          \* status of the last response
    sent,              \* GET requests put on the wire
    total,             \* Retry.total still left
    history,           \* Retry.history: consecutive failed attempts recorded
    sleeps,            \* backoff delays slept, in order
    df,                \* the DataFrame rows returned by web_scraper
    excel,             \* web_scraping_results.xlsx: None or Some(rows)
    printed            \* lines printed by test2.py

vars == <<pc, url, elapsed, result, data, property_data, extracted_content,
          analysis, api_requests, api_responses, folders, files, started,
          errors, exception,
          spc, server, response, sent, total, history, sleeps, df, excel,
          printed>>

mainVars == <<pc, url, elapsed, result, data, property_data, extracted_content,
              analysis, api_requests, api_responses, folders, files, started,
              errors, exception>>

scraperVars == <<spc, server, response, sent, total, history, sleeps, df,
                 excel, printed>>

-----------------------------------------------------------------------------
\* Bounds of the model.

\* Most listing containers (and other top-level divs) on a fetched page.
MaxBlocks == 2

-----------------------------------------------------------------------------
\* Python values.

\* Python's None, and a value that is not None.
None == << >>
Some(v) == <<v>>
Val(o) == o[1]

\* str.strip() removes leading and trailing whitespace.
Whitespace == {" ", "\n"}

RECURSIVE LStrip(_)
LStrip(s) ==
    IF s = << >> THEN s
    ELSE IF Head(s) \in Whitespace THEN LStrip(Tail(s)) ELSE s

RECURSIVE RStrip(_)
RStrip(s) ==
    IF s = << >> THEN s
    ELSE IF s[Len(s)] \in Whitespace THEN RStrip(SubSeq(s, 1, Len(s) - 1))
    ELSE s

Strip(s) == RStrip(LStrip(s))

-----------------------------------------------------------------------------
\* The fetched document and the extraction loop (main.py 81-90, test2.py
\* 82-91: the two loops are the same text).

\* The seven sub-markers, in the order the record lists them.
FieldClasses ==
    <<"property-type", "rooms", "size", "price", "address", "energy-mark",
      "listing-date">>

NumFields == 7

\* The sentinel for an absent sub-marker.
NA == <<"N", "/", "A">>

\* A child node looked up by class: absent, or present with its raw text.
Absent == [present |-> FALSE, text |-> << >>]
Node(t) == [present |-> TRUE, text |-> t]

\* Raw text of each field as the page carries it (the end-to-end scenario's
\* values, shortened), with surrounding whitespace, a non-ASCII character, a
\* quote and a backslash among them.
RawText ==
    <<  <<" ", "V">>,
        <<"4">>,
        <<"m", "U+00B2">>,
        <<"2", ".", "5", " ">>,
        <<"\"", "M", " ", "1">>,
        <<"A", "\n">>,
        <<"\\", "2", "4">>  >>

\* A div of class search-list-item whose sub-markers numbered in `missing`
\* are absent; its children are keyed by their class.
FieldIndex(c) == CHOOSE i \in 1..NumFields : FieldClasses[i] = c

Listing(missing) ==
    [cls |-> "search-list-item",
     kids |-> [c \in {FieldClasses[i] : i \in 1..NumFields} |->
                 IF FieldIndex(c) \in missing THEN Absent
                 ELSE Node(RawText[FieldIndex(c)])]]

\* A top-level div that is no listing container.
OtherDiv ==
    [cls |-> "banner",
     kids |-> [c \in {FieldClasses[i] : i \in 1..NumFields} |-> Absent]]

\* A listing whose sub-markers are all present but blank.
BlankListing ==
    [cls |-> "search-list-item",
     kids |-> [c \in {FieldClasses[i] : i \in 1..NumFields} |->
                 Node(<<" ">>)]]

\* The div under study: a listing with any subset of its sub-markers absent,
\* the blank listing, or a non-listing div.
FreeItems ==
    {Listing(m) : m \in SUBSET (1..NumFields)} \cup {BlankListing, OtherDiv}

\* Its neighbours: the listing missing price and energy mark, or a
\* non-listing div.
ContextItems == {Listing({4, 6}), OtherDiv}

\* The documents a fetch may deliver: up to MaxBlocks top-level divs, one of
\* them any of FreeItems, the others context items.
Pages ==
    {<< >>} \cup
    UNION {
        {[i \in 1..n |-> IF i = p THEN free ELSE ctx[i]] :
            p \in 1..n, free \in FreeItems,
            ctx \in [1..n -> ContextItems]} :
        n \in 1..MaxBlocks}

\* soup.find_all('div', class_='search-list-item'): the matching divs in
\* document order.
RECURSIVE find_all(_, _)
find_all(soup, cls) ==
    IF soup = << >> THEN << >>
    ELSE IF Head(soup).cls = cls
         THEN <<Head(soup)>> \o find_all(Tail(soup), cls)
         ELSE find_all(Tail(soup), cls)

\* item.find('div', class_=c): the child of that class, absent when there is
\* none.
find(item, c) == item.kids[c]

\* node.get_text(strip=True)
get_text(node) == Strip(node.text)

\* One pass of the loop body: the seven conditional expressions and the
\* seven-element list appended to data.
\* The same with get_text() called without strip=True.
ExtractFieldUntrimmed(item, c) ==
    IF find(item, c).present THEN find(item, c).text ELSE NA

ExtractField(item, c) ==
    IF find(item, c).present THEN get_text(find(item, c)) ELSE NA

ExtractItem(item) ==
    [i \in 1..NumFields |-> ExtractField(item, FieldClasses[i])]

\* The whole loop: one record per matching div, appended in order.
RECURSIVE ExtractEach(_)
ExtractEach(items) ==
    IF items = << >> THEN << >>
    ELSE <<ExtractItem(Head(items))>> \o ExtractEach(Tail(items))

ExtractRecords(soup) == ExtractEach(find_all(soup, "search-list-item"))

-----------------------------------------------------------------------------
\* json.dump / json.dumps of a list of records (lists of strings).

NonAscii == {"U+00B2"}

\* The \uXXXX escape of a non-ASCII character.
UEscape(c) == <<"\\", "u", "0", "0", "b", "2">>

\* The encoder's output for one character of a string.
EscapeChar(c, ensure_ascii) ==
    IF c = "\"" THEN <<"\\", "\"">>
    ELSE IF c = "\\" THEN <<"\\", "\\">>
    ELSE IF c = "\n" THEN <<"\\", "n">>
    ELSE IF c \in NonAscii /\ ensure_ascii THEN UEscape(c)
    ELSE <<c>>

RECURSIVE EscapeAll(_, _)
EscapeAll(s, ensure_ascii) ==
    IF s = << >> THEN << >>
    ELSE EscapeChar(Head(s), ensure_ascii) \o EscapeAll(Tail(s), ensure_ascii)

EncodeString(s, ensure_ascii) ==
    <<"\"">> \o EscapeAll(s, ensure_ascii) \o <<"\"">>

RECURSIVE Spaces(_)
Spaces(n) == IF n = 0 THEN << >> ELSE <<" ">> \o Spaces(n - 1)

\* The line break and indentation before an item at nesting `level`; nothing
\* when indent is None.
Newline(indent, level) ==
    IF indent = None THEN << >>
    ELSE <<"\n">> \o Spaces(Val(indent) * level)

\* The separator between two items of a list at nesting `level`.
ItemSeparator(indent, level) ==
    IF indent = None THEN <<",", " ">>
    ELSE <<",">> \o Newline(indent, level + 1)

RECURSIVE JoinItems(_, _)
JoinItems(encoded, sep) ==
    IF encoded = << >> THEN << >>
    ELSE IF Len(encoded) = 1 THEN Head(encoded)
    ELSE Head(encoded) \o sep \o JoinItems(Tail(encoded), sep)

\* A list whose items are already encoded; the empty list is "[]".
EncodeList(encoded, indent, level) ==
    IF encoded = << >> THEN <<"[", "]">>
    ELSE <<"[">> \o Newline(indent, level + 1)
         \o JoinItems(encoded, ItemSeparator(indent, level))
         \o Newline(indent, level) \o <<"]">>

EncodeRecord(rec, ensure_ascii, indent) ==
    EncodeList([i \in 1..Len(rec) |-> EncodeString(rec[i], ensure_ascii)],
               indent, 1)

EncodeRecords(records, ensure_ascii, indent) ==
    EncodeList([i \in 1..Len(records) |->
                   EncodeRecord(records[i], ensure_ascii, indent)],
               indent, 0)

\* The same list with every record equal to an earlier one removed, and the
\* encoder applied to that.
RECURSIVE Dedup(_)
Dedup(records) ==
    IF records = << >> THEN << >>
    ELSE LET init == Dedup(SubSeq(records, 1, Len(records) - 1))
             last == records[Len(records)]
         IN  IF \E i \in 1..Len(init) : init[i] = last
             THEN init ELSE Append(init, last)

json_dumps_dedup(obj, ensure_ascii, indent) ==
    EncodeRecords(Dedup(obj), ensure_ascii, indent)

json_dumps(obj, ensure_ascii, indent) ==
    EncodeRecords(obj, ensure_ascii, indent)

-----------------------------------------------------------------------------
\* main.py: the interactive pipeline.

\* The wait_for ceiling on the crawl, in seconds.
TIMEOUT == 300

\* URLs a user may type, as the dot-separated labels of urlparse(url).netloc:
\* "https://www.boliga.dk/nye-boliger", and "boliga" (no scheme: the netloc
\* is empty).
URLs == {<<"www", "boliga", "dk">>, << >>}

\* What the crawl's result.extracted_content may hold.
ExtractedContents == {None, Some("clusters")}

\* Outcomes of client.chat.completions.create: an API error, or a response
\* whose message content is a text or None.
Completions ==
    {[kind |-> "error"],
     [kind |-> "ok", content |-> None],
     [kind |-> "ok", content |-> Some("Key insights")],
     [kind |-> "ok", content |-> Some("")]}

OutputFiles == {"property_data.json", "property_analysis.md", "property-report.md"}

\* urlparse(url).netloc.split('.')[0]
folder_name(u) == IF u = << >> THEN "" ELSE u[1]

\* os.makedirs(name, exist_ok=True) succeeds unless the name is empty.
makedirs_ok(name) == name # ""

\* An exception that is recorded but swallowed, the run going on to its
\* closing messages.
RaiseSwallowed(name) ==
    /\ exception' = Some(name)
    /\ pc' = "finish"

\* The run stops on an uncaught exception.
Raise(name) ==
    /\ exception' = Some(name)
    /\ pc' = "crashed"

\* run, lines 150-156, into scrape_website, lines 47-53: the URL is read, the
\* folder is made, and the crawl is awaited.
Start ==
    /\ pc = "input"
    /\ \E u \in URLs :
        /\ url' = Some(u)
        /\ started' = Append(started, "Fetch")
        /\ IF makedirs_ok(folder_name(u))
           THEN /\ folders' = folders \cup {folder_name(u)}
                /\ pc' = "fetching"
                /\ UNCHANGED exception
           ELSE /\ Raise("FileNotFoundError")
                /\ UNCHANGED folders
    /\ UNCHANGED <<elapsed, result, data, property_data, extracted_content,
                   analysis, api_requests, api_responses, files, errors>>
    /\ UNCHANGED scraperVars

\* One second passes while the crawl is outstanding.
Tick ==
    /\ pc = "fetching"
    /\ elapsed < TIMEOUT
    /\ elapsed' = elapsed + 1
    /\ UNCHANGED <<pc, url, result, data, property_data, extracted_content,
                   analysis, api_requests, api_responses, folders, files, started, errors,
                   exception>>
    /\ UNCHANGED scraperVars

\* crawler.arun returns before the ceiling (lines 53-66).
FetchReturn ==
    /\ pc = "fetching"
    /\ elapsed < TIMEOUT
    /\ \E html \in {None} \cup {Some(p) : p \in Pages},
          ec \in ExtractedContents :
        result' = Some([html |-> html, extracted_content |-> ec])
    /\ elapsed' = 0
    /\ pc' = "extract"
    /\ UNCHANGED <<url, data, property_data, extracted_content, analysis,
                   api_requests, api_responses, folders, files, started, errors, exception>>
    /\ UNCHANGED scraperVars

\* A failed scrape that still hands back the (empty) record list.
FailedScrapeKeepsData == <<Some(<< >>), None>>

\* What scrape_website returns from its two except clauses (lines 69, 72).

FailedScrape == <<None, None>>

\* The ceiling is reached: asyncio.TimeoutError (lines 67-69).
FetchTimeout ==
    /\ pc = "fetching"
    /\ elapsed = TIMEOUT
    /\ errors' = Append(errors, "Scraping timed out after 5 minutes")
    /\ property_data' = FailedScrape[1]
    /\ extracted_content' = FailedScrape[2]
    /\ pc' = "check"
    /\ UNCHANGED <<url, elapsed, result, data, analysis, api_requests, api_responses, folders,
                   files, started, exception>>
    /\ UNCHANGED scraperVars

\* The crawl raises anything else (lines 70-72).
FetchError ==
    /\ pc = "fetching"
    /\ elapsed < TIMEOUT
    /\ errors' = Append(errors, "An error occurred during scraping")
    /\ property_data' = FailedScrape[1]
    /\ extracted_content' = FailedScrape[2]
    /\ elapsed' = 0
    /\ pc' = "check"
    /\ UNCHANGED <<url, result, data, analysis, api_requests, api_responses, folders, files,
                   started, exception>>
    /\ UNCHANGED scraperVars

\* Lines 77-92: BeautifulSoup(result.html) raises on None; otherwise the loop
\* fills data.
Extract ==
    /\ pc = "extract"
    /\ started' = Append(started, "Extract")
    /\ IF Val(result).html = None
       THEN /\ Raise("TypeError")
            /\ UNCHANGED data
       ELSE /\ data' = ExtractRecords(Val(Val(result).html))
            /\ pc' = "persist"
            /\ UNCHANGED exception
    /\ UNCHANGED <<url, elapsed, result, property_data, extracted_content,
                   analysis, api_requests, api_responses, folders, files, errors>>
    /\ UNCHANGED scraperVars

\* Lines 95-101: the data file is written (the open may fail) and the pair is
\* returned to run.
Persist ==
    /\ pc = "persist"
    /\ started' = Append(started, "Persist")
    /\ \E io_ok \in BOOLEAN :
        IF io_ok
        THEN /\ files' = [files EXCEPT !["property_data.json"] =
                            Some(json_dumps(data, FALSE, Some(2)))]
             /\ property_data' = Some(data)
             /\ extracted_content' = Val(result).extracted_content
             /\ pc' = "check"
             /\ UNCHANGED exception
        ELSE /\ Raise("OSError")
             /\ UNCHANGED <<files, property_data, extracted_content>>
    /\ UNCHANGED <<url, elapsed, result, data, analysis, api_requests, api_responses, folders,
                   errors>>
    /\ UNCHANGED scraperVars

\* The test of line 158.
ScrapingFailed(pd, ec) == pd = None \/ ec = None

\* run, lines 158-162: give up on a failed scrape, else make the folder again.
CheckScrape ==
    /\ pc = "check"
    /\ IF ScrapingFailed(property_data, extracted_content)
       THEN /\ errors' = Append(errors, "Scraping failed")
            /\ pc' = "done"
            /\ UNCHANGED folders
       ELSE /\ folders' = folders \cup {folder_name(Val(url))}
            /\ pc' = "summarize"
            /\ UNCHANGED errors
    /\ UNCHANGED <<url, elapsed, result, data, property_data,
                   extracted_content, analysis, api_requests, api_responses, files, started,
                   exception>>
    /\ UNCHANGED scraperVars

\* generate_completion's request (lines 139-145) for analyze_property_data's
\* arguments (lines 124-128).
CompletionRequest(records) ==
    [model |-> "gpt-4o",
     system |-> "You are a real estate analyst. Analyze the following property data and provide key insights for potential buyers or investors.",
     user |-> json_dumps(records, TRUE, None)]

\* A completion call that is issued a second time.
IssueRequestRetried(req) == <<req, req>>

\* The API calls generate_completion makes for one request (line 139).

IssueRequest(req) == <<req>>

\* What generate_completion returns for a response (line 147).
CompletionContent(resp) == resp.content

\* run, lines 164-165: AnalystAgent -> analyze_property_data ->
\* generate_completion; an API error is not handled anywhere.
Summarize ==
    /\ pc = "summarize"
    /\ started' = Append(started, "Summarize")
    /\ api_requests' =
           api_requests \o IssueRequest(CompletionRequest(Val(property_data)))
    /\ \E resp \in Completions :
        /\ api_responses' = Append(api_responses, resp)
        /\ IF resp.kind = "error"
           THEN /\ Raise("APIError")
                /\ UNCHANGED analysis
           ELSE /\ analysis' = Some([analysis |-> CompletionContent(resp)])
                /\ pc' = "save_analysis"
                /\ UNCHANGED exception
    /\ UNCHANGED <<url, elapsed, result, data, property_data,
                   extracted_content, folders, files, errors>>
    /\ UNCHANGED scraperVars

\* A write that turns its argument into a str first.
WritableOrStr(content) == IF content = None THEN Some("None") ELSE content

\* What f.write accepts: a str is written as it is, None raises TypeError
\* (shown as None here).

Writable(content) == content

\* A value interpolated into an f-string: None renders as "None".
Format(content) == IF content = None THEN "None" ELSE Val(content)

\* run, lines 168-171: open(..., "w") creates or truncates the file, then
\* f.write raises TypeError when the content is None.
SaveAnalysis ==
    /\ pc = "save_analysis"
    /\ \E io_ok \in BOOLEAN :
        IF ~io_ok
        THEN /\ Raise("OSError")
             /\ UNCHANGED files
        ELSE IF Writable(Val(analysis).analysis) = None
        THEN /\ files' = [files EXCEPT !["property_analysis.md"] = Some("")]
             /\ Raise("TypeError")
        ELSE /\ files' = [files EXCEPT !["property_analysis.md"] =
                            Some(Val(Writable(Val(analysis).analysis)))]
             /\ pc' = "report"
             /\ UNCHANGED exception
    /\ UNCHANGED <<url, elapsed, result, data, property_data,
                   extracted_content, analysis, api_requests, api_responses,
                   folders, started, errors>>
    /\ UNCHANGED scraperVars

\* The f-string of lines 174-181: the fixed text and the two interpolations,
\* in order.
property_report(records, text) ==
    <<"# Comprehensive Property Report\n\n## Extracted Property Data\n",
      json_dumps(records, TRUE, Some(2)),
      "\n\n## Property Analysis\n",
      text,
      "\n">>

\* run, lines 174-185: the report is composed and written.
Report ==
    /\ pc = "report"
    /\ started' = Append(started, "Report")
    /\ \E io_ok \in BOOLEAN :
        IF io_ok
        THEN /\ files' = [files EXCEPT !["property-report.md"] =
                            Some(property_report(Val(property_data),
                                                 Format(Val(analysis).analysis)))]
             /\ pc' = "finish"
             /\ UNCHANGED exception
        ELSE /\ Raise("OSError")
             /\ UNCHANGED files
    /\ UNCHANGED <<url, elapsed, result, data, property_data,
                   extracted_content, analysis, api_requests, api_responses, folders, errors>>
    /\ UNCHANGED scraperVars

\* run, lines 187-190, and main, lines 197-198.
Finish ==
    /\ pc = "finish"
    /\ started' = Append(started, "Done")
    /\ pc' = "done"
    /\ UNCHANGED <<url, elapsed, result, data, property_data,
                   extracted_content, analysis, api_requests, api_responses, folders, files,
                   errors, exception>>
    /\ UNCHANGED scraperVars

\* The state once main.py's module level has run and main() is entered.
MainInit ==
    /\ pc = "input"
    /\ url = None
    /\ elapsed = 0
    /\ result = None
    /\ data = << >>
    /\ property_data = None
    /\ extracted_content = None
    /\ analysis = None
    /\ api_requests = << >>
    /\ api_responses = << >>
    /\ folders = {}
    /\ files = [f \in OutputFiles |-> None]
    /\ started = << >>
    /\ errors = << >>
    /\ exception = None

\* test2.py is not running.
ScraperIdle ==
    /\ spc = "idle"
    /\ server = "none"
    /\ response = None
    /\ sent = 0
    /\ total = 0
    /\ history = 0
    /\ sleeps = << >>
    /\ df = None
    /\ excel = None
    /\ printed = << >>

Init == MainInit /\ ScraperIdle

Next ==
    \/ Start
    \/ Tick
    \/ FetchReturn
    \/ FetchTimeout
    \/ FetchError
    \/ Extract
    \/ Persist
    \/ CheckScrape
    \/ Summarize
    \/ SaveAnalysis
    \/ Report
    \/ Finish

Spec == Init /\ [][Next]_vars

-----------------------------------------------------------------------------
\* test2.py: web_scraper and the module-level driver.

\* Retry(total=5, status_forcelist=[...], allowed_methods=[...],
\* backoff_factor=1), lines 61-66.
RetryTotal == 5

status_forcelist == {429, 500, 502, 503, 504}

allowed_methods == {"HEAD", "GET", "OPTIONS"}

backoff_factor == 1

\* Statuses a server may answer with.
Statuses == {200, 404} \cup status_forcelist

\* Servers: one that answers 503 to every GET, and one that may answer
\* anything.
Servers == {"always503", "any"}

Answers(srv) == IF srv = "always503" THEN {503} ELSE Statuses

RECURSIVE Pow2(_)
Pow2(n) == IF n = 0 THEN 1 ELSE 2 * Pow2(n - 1)

\* A backoff that does not grow.
BackoffConstant(n) == backoff_factor

\* Retry.get_backoff_time for n consecutive recorded failures: nothing before
\* the second consecutive failure, then backoff_factor * 2^(n-1).

BackoffTime(n) == IF n <= 1 THEN 0 ELSE backoff_factor * Pow2(n - 1)

\* Whether the adapter retries a response to `method` with `status`.
IsRetry(method, status) ==
    method \in allowed_methods /\ status \in status_forcelist

\* http.get is called (line 73): the session is mounted with the retry policy.
Get ==
    /\ spc = "start"
    /\ total' = RetryTotal
    /\ history' = 0
    /\ spc' = "request"
    /\ UNCHANGED <<server, response, sent, sleeps, df, excel, printed>>
    /\ UNCHANGED mainVars

\* One GET goes out and the server answers.
SendRequest ==
    /\ spc = "request"
    /\ sent' = sent + 1
    /\ \E status \in Answers(server) : response' = Some(status)
    /\ spc' = "response"
    /\ UNCHANGED <<server, total, history, sleeps, df, excel, printed>>
    /\ UNCHANGED mainVars

\* A retryable status with retries left: Retry.increment, the backoff sleep,
\* and the request is sent again.
RetryRequest ==
    /\ spc = "response"
    /\ IsRetry("GET", Val(response))
    /\ total - 1 >= 0
    /\ total' = total - 1
    /\ history' = history + 1
    /\ sleeps' = Append(sleeps, BackoffTime(history + 1))
    /\ spc' = "request"
    /\ UNCHANGED <<server, response, sent, df, excel, printed>>
    /\ UNCHANGED mainVars

\* A retryable status with the retries exhausted (MaxRetryError, surfaced as
\* requests' RetryError), or a 4xx/5xx that raise_for_status turns into an
\* HTTPError: the except clause of lines 75-77 returns the empty DataFrame.
RequestFailed ==
    /\ spc = "response"
    /\ \/ IsRetry("GET", Val(response)) /\ total - 1 < 0
       \/ ~IsRetry("GET", Val(response)) /\ Val(response) >= 400
    /\ printed' = Append(printed, "Error occurred")
    /\ df' = Some(<< >>)
    /\ spc' = "driver"
    /\ UNCHANGED <<server, response, sent, total, history, sleeps, excel>>
    /\ UNCHANGED mainVars

\* A 200: the body is parsed and the rows are extracted (lines 79-95).
Scraped ==
    /\ spc = "response"
    /\ Val(response) = 200
    /\ \E page \in Pages : df' = Some(ExtractRecords(page))
    /\ spc' = "driver"
    /\ UNCHANGED <<server, response, sent, total, history, sleeps, excel,
                   printed>>
    /\ UNCHANGED mainVars

\* The driver, lines 115-120: an empty DataFrame is reported as a failure.
Driver ==
    /\ spc = "driver"
    /\ IF Val(df) # << >>
       THEN /\ excel' = Some(Val(df))
            /\ printed' = Append(printed, "Web Scraping Result:")
       ELSE /\ printed' =
                   Append(printed, "Failed to retrieve data from the website.")
            /\ UNCHANGED excel
    /\ spc' = "end"
    /\ UNCHANGED <<server, response, sent, total, history, sleeps, df>>
    /\ UNCHANGED mainVars

\* main.py is not running.
MainIdle ==
    /\ pc = "idle"
    /\ url = None
    /\ elapsed = 0
    /\ result = None
    /\ data = << >>
    /\ property_data = None
    /\ extracted_content = None
    /\ analysis = None
    /\ api_requests = << >>
    /\ api_responses = << >>
    /\ folders = {}
    /\ files = [f \in OutputFiles |-> None]
    /\ started = << >>
    /\ errors = << >>
    /\ exception = None

\* web_scraper(url) is entered (line 112) against some server.
ScraperInit ==
    /\ MainIdle
    /\ spc = "start"
    /\ server \in Servers
    /\ response = None
    /\ sent = 0
    /\ total = 0
    /\ history = 0
    /\ sleeps = << >>
    /\ df = None
    /\ excel = None
    /\ printed = << >>

ScraperNext ==
    \/ Get
    \/ SendRequest
    \/ RetryRequest
    \/ RequestFailed
    \/ Scraped
    \/ Driver

SpecScraper == ScraperInit /\ [][ScraperNext]_vars

-----------------------------------------------------------------------------
\* Notions the properties below are stated with.

\* The stages of a run, in pipeline order.
StageOrder == <<"Fetch", "Extract", "Persist", "Summarize", "Report", "Done">>

\* The run has come to its end, normally or by an uncaught exception.
Ended == pc \in {"done", "crashed"}

\* Some stage has failed: an error was logged or an exception left run().
Failed == errors # << >> \/ exception # None

NoOutputFiles == \A f \in OutputFiles : files[f] = None

TimedOut ==
    errors # << >> /\ errors[1] = "Scraping timed out after 5 minutes"

FetchErrored ==
    errors # << >> /\ errors[1] = "An error occurred during scraping"

\* The text of the analysis, None while there is none.
AnalysisText == IF analysis = None THEN None ELSE Val(analysis).analysis

\* The extraction loop has run on a fetched document.
Extracted ==
    /\ result # None
    /\ Val(result).html # None
    /\ \E k \in 1..Len(started) : started[k] = "Extract"

FetchedPage == Val(Val(result).html)

\* The listing containers of a document, in document order.
IsListing(d) == d.cls = "search-list-item"
ListingsOf(page) == SelectSeq(page, IsListing)

\* t is raw without its leading and trailing whitespace.
IsTrimOf(t, raw) ==
    /\ \E a, b \in 0..Len(raw) :
        /\ a + b <= Len(raw)
        /\ t = SubSeq(raw, a + 1, Len(raw) - b)
        /\ \A k \in 1..a : raw[k] \in Whitespace
        /\ \A k \in (Len(raw) - b + 1)..Len(raw) : raw[k] \in Whitespace
    /\ t # << >> => t[1] \notin Whitespace /\ t[Len(t)] \notin Whitespace

\* The record a listing container stands for.
RecordOf(item) ==
    [i \in 1..NumFields |->
        IF item.kids[FieldClasses[i]].present
        THEN Strip(item.kids[FieldClasses[i]].text) ELSE NA]

RecordsOf(page) ==
    [k \in 1..Len(ListingsOf(page)) |-> RecordOf(ListingsOf(page)[k])]

\* A JSON reader for lists of lists of strings.  Each reader starts at index
\* i of the text and gives the value read and the index after it.

\* The first index at or after i that holds neither whitespace nor a comma.
Skip(s, i) ==
    CHOOSE j \in i..(Len(s) + 1) :
        /\ j = Len(s) + 1 \/ s[j] \notin {" ", "\n", ","}
        /\ \A k \in i..(j - 1) : s[k] \in {" ", "\n", ","}

\* The characters of a string up to its closing quote, escapes undone.
RECURSIVE ReadChars(_, _)
ReadChars(s, i) ==
    IF s[i] = "\"" THEN [val |-> << >>, next |-> i + 1]
    ELSE IF s[i] = "\\" THEN
        IF s[i + 1] = "u" THEN
            LET r == ReadChars(s, i + 6)
                c == IF SubSeq(s, i + 2, i + 5) = <<"0", "0", "b", "2">>
                     THEN "U+00B2" ELSE "?"
            IN  [val |-> <<c>> \o r.val, next |-> r.next]
        ELSE
            LET r == ReadChars(s, i + 2)
                c == IF s[i + 1] = "n" THEN "\n" ELSE s[i + 1]
            IN  [val |-> <<c>> \o r.val, next |-> r.next]
    ELSE LET r == ReadChars(s, i + 1)
         IN  [val |-> <<s[i]>> \o r.val, next |-> r.next]

\* The strings of a record up to its closing bracket.
RECURSIVE ReadStrings(_, _)
ReadStrings(s, i) ==
    IF s[i] = "]" THEN [val |-> << >>, next |-> i + 1]
    ELSE LET str == ReadChars(s, i + 1)
             rest == ReadStrings(s, Skip(s, str.next))
         IN  [val |-> <<str.val>> \o rest.val, next |-> rest.next]

\* The records of the outer list up to its closing bracket.
RECURSIVE ReadRecords(_, _)
ReadRecords(s, i) ==
    IF s[i] = "]" THEN << >>
    ELSE LET rec == ReadStrings(s, Skip(s, i + 1))
         IN  <<rec.val>> \o ReadRecords(s, Skip(s, rec.next))

JsonLoads(s) == ReadRecords(s, Skip(s, 2))

IsPrefix(s, t) == Len(s) <= Len(t) /\ s = SubSeq(t, 1, Len(s))

StrictlyIncreasing(s) == \A i \in 1..(Len(s) - 1) : s[i] < s[i + 1]

Printed(line) == \E k \in 1..Len(printed) : printed[k] = line

-----------------------------------------------------------------------------
\* Properties of the pipeline (main.py), checked under Spec.

\* C1: the stages start only in the order Fetch, Extract, Persist, Summarize,
\* Report, Done, each at most once, and once a stage has failed no further
\* stage is started.
C1_StagesInOrder ==
    /\ [](IsPrefix(started, StageOrder))
    /\ [][Failed => started' = started]_vars

C1_Witness ==
    /\ exception = Some("APIError")
    /\ started = <<"Fetch", "Extract", "Persist", "Summarize">>
    /\ Ended

\* C2: a run in which some stage failed ends with no partial output: none of
\* property_data.json, property_analysis.md and property-report.md is on disk.
C2_FailureLeavesNoFiles ==
    (Ended /\ Failed) => NoOutputFiles

\* C3: the report file is on disk only if both the records and the analysis
\* text were produced; a run that ends without one of them has no report file
\* and has surfaced an error.
C3_ReportNeedsBoth ==
    /\ files["property-report.md"] # None =>
           property_data # None /\ AnalysisText # None
    /\ (Ended /\ (property_data = None \/ AnalysisText = None)) =>
           (files["property-report.md"] = None /\ Failed)

C3_Witness ==
    /\ Ended
    /\ property_data # None
    /\ analysis # None
    /\ AnalysisText = None
    /\ files["property-report.md"] = None
    /\ exception = Some("TypeError")

\* C4: the crawl is never outstanding beyond the 300-second ceiling: at the
\* ceiling the wait can only end, and ends in the timeout; a crawl that timed
\* out, or that failed otherwise, hands run neither records nor extracted
\* content, starts no further stage, writes no output file, and the run ends
\* as a failed scrape.
C4_NothingPropagated ==
    /\ pc = "fetching" => elapsed <= TIMEOUT
    /\ (pc = "fetching" /\ elapsed = TIMEOUT) =>
           /\ ENABLED FetchTimeout
           /\ ~ENABLED Tick
           /\ ~ENABLED FetchReturn
           /\ ~ENABLED FetchError
    /\ TimedOut => elapsed = TIMEOUT
    /\ (TimedOut \/ FetchErrored) =>
           /\ property_data = None
           /\ extracted_content = None
           /\ data = << >>
           /\ started = <<"Fetch">>
           /\ NoOutputFiles
           /\ pc \in {"check", "done"}
           /\ exception = None
           /\ pc = "done" => errors[Len(errors)] = "Scraping failed"

C4_TimeoutPropagatesNothing ==
    /\ []C4_NothingPropagated
    /\ [][(pc = "fetching" /\ elapsed = TIMEOUT /\ pc' # "fetching")
            => TimedOut']_vars

C4_Witness == TimedOut /\ pc = "done" /\ elapsed = 300

\* C5: every listing container yields one record; a field whose sub-marker is
\* absent is "N/A", every other field is the trimmed text of its sub-marker,
\* and blocks after one with absent sub-markers are extracted all the same.
C5_MissingFieldsAreNA ==
    Extracted =>
        /\ Len(data) = Len(ListingsOf(FetchedPage))
        /\ \A k \in 1..Len(data) : \A i \in 1..NumFields :
            LET node == ListingsOf(FetchedPage)[k].kids[FieldClasses[i]] IN
            /\ ~node.present => data[k][i] = NA
            /\ node.present => IsTrimOf(data[k][i], node.text)

C5_Witness ==
    /\ Extracted
    /\ Len(data) = 2
    /\ \A i \in 1..NumFields : data[1][i] = NA <=> i \in {1, 3, 7}
    /\ \A i \in 1..NumFields : data[2][i] = NA <=> i \in {4, 6}
    /\ data[1][4] = <<"2", ".", "5">>
    /\ data[2][1] = <<"V">>

\* C7: the data file and the report's data section both read back as the
\* extracted sequence: one record per listing container, in document order,
\* the seven fields in their fixed order, duplicates kept.
C7_RecordsPreserved ==
    /\ files["property_data.json"] # None =>
           /\ JsonLoads(Val(files["property_data.json"])) = data
           /\ data = RecordsOf(FetchedPage)
    /\ files["property-report.md"] # None =>
           /\ JsonLoads(Val(files["property-report.md"])[2]) = data
           /\ data = RecordsOf(FetchedPage)

C7_Witness ==
    /\ files["property-report.md"] # None
    /\ files["property_data.json"] # None
    /\ Len(data) = 2
    /\ data[1] = data[2]
    /\ data[1][3] = <<"m", "U+00B2">>

C10_FetchLeavesDiskAlone ==
    (pc \in {"input", "fetching"} \/ TimedOut \/ FetchErrored) =>
        (folders = {} /\ NoOutputFiles)

-----------------------------------------------------------------------------
\* Properties of the plain-HTTP scraper (test2.py), checked under SpecScraper.

\* C6: a page fetched with no listing container gives an empty record
\* sequence, and the run does not report it as a failure.
C6_EmptyIsNoFailure ==
    (spc = "end" /\ response = Some(200) /\ df = Some(<< >>)) =>
        ~Printed("Failed to retrieve data from the website.")

\* C8: against a server that always answers 503, web_scraper sends the first
\* request and exactly 5 retries, each after a strictly longer backoff than
\* the one before, then fails: no sixth retry, no success.
C8_FiveRetriesThenFail ==
    server = "always503" =>
        /\ sent <= 6
        /\ Len(sleeps) <= 5
        /\ StrictlyIncreasing(sleeps)
        /\ excel = None
        /\ ~Printed("Web Scraping Result:")
        /\ spc \in {"driver", "end"} =>
               /\ sent = 6
               /\ Len(sleeps) = 5
               /\ df = Some(<< >>)
               /\ Printed("Error occurred")

C8_Witness ==
    /\ server = "always503"
    /\ spc = "end"
    /\ sent = 6
    /\ Len(sleeps) = 5

====
